---- MODULE Spec2Model ----
(***************************************************************************)
(* Model of the Lucky Number pair of services:                             *)
(*   - the backend  (lucky-number-app): startup delay, /lucky with a       *)
(*     busy wait, /ping;                                                   *)
(*   - the frontend (lucky-web-app): one-shot /ping probe that gates       *)
(*     app.listen, and the GET / handler that forwards to the backend.     *)
(* Time is discrete: one Tick is one second (1000 ms of the source).       *)
(* Whatever a process can run (a due timer, the end of the busy loop, a    *)
(* queued request on an idle event loop, a settled fetch) runs before the  *)
(* next Tick: the latency of an idle event loop and of the cluster network *)
(* is far below one second.  Launching and killing processes, the arrival  *)
(* of client requests and the answers of a server other than the backend   *)
(* may take any number of Ticks.                                           *)
(***************************************************************************)
EXTENDS Integers, Sequences, FiniteSets, TLC

\* ------------------------------------------------------------------ bounds
MaxExt == 1        \* concurrent requests of external clients (curl, kubelet)
MaxInbound == 1    \* concurrent inbound requests while processes come and go
MaxParallel == 2   \* concurrent inbound requests while both processes stay up
MaxStall == 3      \* seconds a pending forward is timed for
MaxServed == 2     \* /lucky answers counted in one run of back-to-back waits
RandDen == 100     \* Math.random() is modelled as k / RandDen, k < RandDen

\* ------------------------------------------------------- program constants
StartupDelay == 5  \* setTimeout(resolve, 5000)
LuckyDelay == 5    \* busyWait(5000)
ProbeTimeout == 2  \* fetch(PING_URL, { timeout: 2000 })
LuckyBase == 10    \* Math.floor(10 + Math.random() * 90)
LuckySpan == 90

\* ------------------------------------------------------------------- URLs
\* A URL is the sequence of its tokens: the maximal runs without "/" and
\* the "/" characters themselves.  "b" is the host of the backend service,
\* "x" is the host of some other HTTP server.
Url(host, path) == <<"http:", "/", "/", host>> \o path

\* Values of LUCKY_API_URL that name the backend ...
BackendUrls ==
    { Url("b", <<"/", "lucky">>),          \* http://b/lucky  (the default)
      Url("b", <<"/", "api">>) }           \* http://b/api

\* ... and one that names another server.
ForeignUrls == { Url("x", <<"/", "lucky">>) }   \* http://x/lucky

NoUrl == <<>>

\* LUCKY_API_URL.replace(/\/lucky$/, '/ping'): the string ends with "/lucky"
\* exactly when its last two tokens are "/" and "lucky".
PingUrlOf(u) ==
    IF Len(u) >= 2 /\ u[Len(u)] = "lucky" /\ u[Len(u) - 1] = "/"
    THEN SubSeq(u, 1, Len(u) - 1) \o <<"ping">>
    ELSE u

HostOf(u) == IF Len(u) >= 4 THEN u[4] ELSE ""

PathOf(u) == IF Len(u) >= 5 THEN SubSeq(u, 5, Len(u)) ELSE <<"/">>

\* express routing of the backend (non-strict: a trailing "/" is ignored);
\* the backend registers GET /lucky and GET /ping only.
RouteOfPath(p) ==
    LET q == IF Len(p) > 2 /\ p[Len(p)] = "/" THEN SubSeq(p, 1, Len(p) - 1) ELSE p
    IN  IF q = <<"/", "lucky">> THEN "lucky"
        ELSE IF q = <<"/", "ping">> THEN "ping"
        ELSE "none"

\* -------------------------------------------------------------- messages
\* What a client has on the wire for its one request.
\*   kind: "idle"    nothing sent yet
\*         "queued"  accepted by the backend, waiting for / in its handler
\*         "atX"     accepted by the other server, not answered yet
\*         "refused" connection refused
\*         "lost"    no answer will ever come
\*         "reset"   connection dropped by a dying backend
\*         "resp"    an HTTP response (code and body)
Wire(kind, code, json, status, lucky, message) ==
    [kind |-> kind, code |-> code, json |-> json, status |-> status,
     lucky |-> lucky, message |-> message]

Plain(kind) == Wire(kind, 0, FALSE, "absent", -1, "absent")

Resp(code, json, status, lucky, message) ==
    Wire("resp", code, json, status, lucky, message)

\* A /ping handler answering { status: 'up' }.
PingSaysUp == Resp(200, TRUE, "up", -1, "absent")

PingOk == Resp(200, TRUE, "ok", -1, "absent")            \* res.json({ status: 'ok' })
LuckyResp(n) == Resp(200, TRUE, "absent", n, "absent")   \* res.json({ luckyNumber })
NotFound == Resp(404, FALSE, "absent", -1, "absent")     \* express default 404 page
CrashAck == Resp(200, TRUE, "absent", -1, "Server will crash now!")

\* Math.ceil in the place of Math.floor.
LuckyNumberCeil(k) == LuckyBase + ((k * LuckySpan + RandDen - 1) \div RandDen)

\* Math.floor(10 + Math.random() * 90) with Math.random() = k / RandDen
LuckyNumber(k) == LuckyBase + ((k * LuckySpan) \div RandDen)

\* Every value Math.random() can return at this resolution ...
RandomValues == 0 .. (RandDen - 1)

\* ... and the ones a handler draws in the model: the least, a middle one and
\* the greatest.
Draws == {0, RandDen \div 2, RandDen - 1}

\* Answers the other server ("x") may give: any status code of a few, a body
\* that is JSON or not, with or without a status and a luckyNumber field.
ForeignAnswers ==
    { Resp(code, json, status, lucky, "absent") :
        code \in {200, 404, 503}, json \in BOOLEAN,
        status \in {"ok", "starting", "absent"}, lucky \in {-1, 42} }

\* ---------------------------------------------------------------- clients
\* The frontend's fetches are told apart; an external client keeps nothing
\* of an answer or a failure, so its requests are anonymous.
Probe == <<"probe", 0>>
InboundOf(n) == { <<"in", i>> : i \in 1 .. n }
Inbound == InboundOf(IF MaxInbound > MaxParallel THEN MaxInbound ELSE MaxParallel)
Ext == <<"ext", 0>>
Clients == {Probe} \cup Inbound

ExtRoutes == {"lucky", "ping", "crash"}

VARIABLES
    luckyApiUrl,   \* LUCKY_API_URL of the frontend
    bState,        \* ServiceState of the backend process
    bUptime,       \* seconds since the backend process started (while Starting)
    bQueue,        \* requests accepted by the backend, in arrival order
    bBusy,         \* the head of bQueue is inside busyWait
    bBusyFor,      \* seconds spent in the current busyWait
    bServed,       \* /lucky answers since time last passed outside a busyWait
    bLoadFor,      \* seconds since the first of their waits began
    bExit,         \* exit code of the backend process, -1 while none
    bLast,         \* the last response of this backend process in the
                   \* current second: the route asked, the answer, and the
                   \* process's state and uptime and the seconds its handler
                   \* had spent in busyWait then
    wire,          \* per client: the state of its request
    fState,        \* frontend process
    gate,          \* GateDecision
    probeElapsed,  \* seconds since the probe was sent
    probeOutcome,  \* what settled the probe
    probeSent,     \* what the backend was doing when the probe was sent
    fExit,         \* exit code of the frontend process, -1 while none
    fLog,          \* console output of the frontend's startup
    fReq,          \* per inbound connection: "idle", or "awaiting" its fetch
    fPending,      \* per inbound connection: seconds its fetch has been pending
    fLast          \* the last answer of app.get('/') in the current second,
                   \* and whether the reply it was made from had an ok status

vars == <<luckyApiUrl, bState, bUptime, bQueue, bBusy, bBusyFor, bServed,
                   bLoadFor, bExit,
          bLast, wire, fState, gate, probeElapsed, probeOutcome, probeSent,
          fExit, fLog, fReq, fPending, fLast>>

bVars == <<bState, bUptime, bQueue, bBusy, bBusyFor, bServed,
                   bLoadFor, bExit, bLast>>
fVars == <<fState, gate, probeElapsed, probeOutcome, probeSent, fExit, fLog,
           fReq, fPending, fLast>>

NoLast ==
    [route |-> "none", resp |-> Plain("idle"), state |-> "none", uptime |-> 0,
     waited |-> 0]

NoAnswer ==
    [code |-> 0, number |-> -1, logged |-> FALSE, body |-> <<>>, upstreamOk |-> FALSE,
     sent |-> 0]

InitOf(urls) ==
    /\ luckyApiUrl \in urls
    /\ bState = "NotRunning"
    /\ bUptime = 0
    /\ bQueue = <<>>
    /\ bBusy = FALSE
    /\ bBusyFor = 0
    /\ bServed = 0
    /\ bLoadFor = 0
    /\ bExit = -1
    /\ bLast = NoLast
    /\ wire = [c \in Clients |-> Plain("idle")]
    /\ fState = "NotStarted"
    /\ gate = "Undecided"
    /\ probeElapsed = 0
    /\ probeOutcome = Plain("idle")
    /\ probeSent = [state |-> "none", blocked |-> FALSE]
    /\ fExit = -1
    /\ fLog = <<>>
    /\ fReq = [c \in Inbound |-> "idle"]
    /\ fPending = [c \in Inbound |-> 0]
    /\ fLast = NoAnswer

\* ------------------------------------------------------------- transport
\* A backend that calls app.listen at once, without startupDelay(): it accepts
\* connections from the start of the process.
DeliverFromStart(c, host, route, fails) ==
    IF host = "b"
    THEN IF bState \in {"Starting", "Ready"}
         THEN /\ wire' = [wire EXCEPT ![c] = Plain("queued")]
              /\ bQueue' = Append(bQueue, [client |-> c, route |-> route])
         ELSE /\ \E k \in fails : wire' = [wire EXCEPT ![c] = Plain(k)]
              /\ bQueue' = bQueue
    ELSE /\ \E k \in {"atX"} \cup fails : wire' = [wire EXCEPT ![c] = Plain(k)]
         /\ bQueue' = bQueue

\* Client c opens a connection to host and sends GET for route.  The backend
\* accepts connections only once app.listen has run; a listening backend
\* queues the request even while its single thread is busy.  Towards a host
\* that does not listen the attempt ends in one of the ways of fails.
Deliver(c, host, route, fails) ==
    IF host = "b"
    THEN IF bState = "Ready"
         THEN /\ wire' = [wire EXCEPT ![c] = Plain("queued")]
              /\ bQueue' = Append(bQueue, [client |-> c, route |-> route])
         ELSE /\ \E k \in fails : wire' = [wire EXCEPT ![c] = Plain(k)]
              /\ bQueue' = bQueue
    ELSE /\ \E k \in {"atX"} \cup fails : wire' = [wire EXCEPT ![c] = Plain(k)]
         /\ bQueue' = bQueue

\* The other server answers a request it holds.
ForeignAnswer(c) ==
    /\ wire[c].kind = "atX"
    /\ \E r \in ForeignAnswers : wire' = [wire EXCEPT ![c] = r]
    /\ UNCHANGED <<luckyApiUrl, bVars, fVars>>

\* The requests of external clients the backend holds.
ExtPending == Cardinality({ i \in 1 .. Len(bQueue) : bQueue[i].client = Ext })

\* An external client (curl, a Kubernetes probe) calls the listening backend.
\* A request that arrives at an event loop with queued requests to run is
\* placed after their handling: handlers take no time unless they busy-wait,
\* so external requests pile up only behind a busy wait.
ExtSend(route) ==
    /\ bState = "Ready"
    /\ bBusy \/ bQueue = <<>>
    /\ ExtPending < MaxExt
    /\ bQueue' = Append(bQueue, [client |-> Ext, route |-> route])
    /\ UNCHANGED <<luckyApiUrl, bState, bUptime, bBusy, bBusyFor, bServed,
                   bLoadFor, bExit,
                   bLast, wire, fVars>>

\* ----------------------------------------------------------------- backend
\* A launch that resumes the startup delay where the previous process left
\* it, as if the elapsed time were persisted.
StartBackendResumes ==
    /\ bState \in {"NotRunning", "Killed", "Crashed"}
    /\ bState' = "Starting"
    /\ bQueue' = <<>>
    /\ bBusy' = FALSE
    /\ bBusyFor' = 0
    /\ bServed' = 0
    /\ bLoadFor' = 0
    /\ bExit' = -1
    /\ bLast' = NoLast
    /\ UNCHANGED <<luckyApiUrl, bUptime, wire, fVars>>

\* The orchestrator launches the backend process: the module body runs and
\* startupDelay() arms its one-shot timer.
StartBackend ==
    /\ bState \in {"NotRunning", "Killed", "Crashed"}
    /\ bState' = "Starting"
    /\ bUptime' = 0
    /\ bQueue' = <<>>
    /\ bBusy' = FALSE
    /\ bBusyFor' = 0
    /\ bServed' = 0
    /\ bLoadFor' = 0
    /\ bExit' = -1
    /\ bLast' = NoLast
    /\ UNCHANGED <<luckyApiUrl, wire, fVars>>

\* app.listen called without awaiting the delay.
StartupNotAwaited == TRUE

\* A startup promise that never resolves.
StartupNeverResolves == FALSE

\* await new Promise(resolve => setTimeout(resolve, 5000))
StartupElapsed == bUptime >= StartupDelay

\* startupDelay().then(() => app.listen(PORT, ...))
StartupTimerFires ==
    /\ bState = "Starting"
    /\ StartupElapsed
    /\ bState' = "Ready"
    /\ UNCHANGED <<luckyApiUrl, bUptime, bQueue, bBusy, bBusyFor, bServed,
                   bLoadFor, bExit,
                   bLast, wire, fVars>>

\* The orchestrator (or the operator) kills the backend process: every
\* connection it holds is dropped.
KillBackend ==
    /\ bState \in {"Starting", "Ready"}
    /\ bState' = "Killed"
    /\ bExit' = 137    \* 128 + SIGKILL
    /\ bQueue' = <<>>
    /\ bBusy' = FALSE
    /\ bBusyFor' = 0
    /\ bServed' = 0
    /\ bLoadFor' = 0
    /\ wire' = [c \in Clients |->
                  IF wire[c].kind = "queued" THEN Plain("reset") ELSE wire[c]]
    /\ UNCHANGED <<luckyApiUrl, bUptime, bLast, fVars>>

\* res.json(...) / the default 404: the head request is answered and leaves
\* the queue.
Respond(r) ==
    LET req == Head(bQueue)
    IN  /\ wire' = IF req.client = Ext THEN wire
                    ELSE [wire EXCEPT ![req.client] = r]
        /\ bLast' = [route |-> req.route, resp |-> r, state |-> bState,
                     uptime |-> bUptime, waited |-> bBusyFor]
        /\ bQueue' = Tail(bQueue)

Idle == bState = "Ready" /\ ~bBusy /\ bQueue # <<>>

\* A busyWait whose loop body never runs.
BusyWaitSkipped == TRUE

\* busyWait(ms): while (Date.now() - start < ms) {}
BusyWaitOver == ~(bBusyFor < LuckyDelay)

\* A /lucky request is in its busy wait or waits in the queue.
LuckyPending == bBusy \/ \E i \in 1 .. Len(bQueue) : bQueue[i].route = "lucky"

\* A /ping served while another handler waits (a wait that yields to the
\* event loop): any /ping the process holds is answered at once.
HandlePingDuringWait ==
    /\ bState = "Ready"
    /\ \E i \in 1 .. Len(bQueue) :
         /\ bQueue[i].route = "ping"
         /\ wire' = IF bQueue[i].client = Ext THEN wire
                    ELSE [wire EXCEPT ![bQueue[i].client] = PingOk]
         /\ bLast' = [route |-> "ping", resp |-> PingOk, state |-> bState,
                      uptime |-> bUptime, waited |-> bBusyFor]
         /\ bQueue' = SubSeq(bQueue, 1, i - 1) \o SubSeq(bQueue, i + 1, Len(bQueue))
    /\ UNCHANGED <<luckyApiUrl, bState, bUptime, bBusy, bBusyFor, bServed,
                   bLoadFor, bExit, fVars>>

\* A /ping handler that does the simulated work before it answers: it
\* enters busyWait like the /lucky handler.
HandlePingAfterWait ==
    /\ Idle
    /\ Head(bQueue).route = "ping"
    /\ bBusy' = TRUE
    /\ bBusyFor' = 0
    /\ UNCHANGED <<luckyApiUrl, bState, bUptime, bQueue, bServed, bLoadFor,
                   bExit, bLast, wire, fVars>>

\* app.get('/ping', (req, res) => res.json({ status: 'ok' }))
HandlePing ==
    /\ Idle
    /\ Head(bQueue).route = "ping"
    /\ Respond(PingOk)
    /\ UNCHANGED <<luckyApiUrl, bState, bUptime, bBusy, bBusyFor, bServed,
                   bLoadFor, bExit, fVars>>

\* app.get('/lucky'): the handler enters busyWait(5000) ...
HandleLuckyBegin ==
    /\ Idle
    /\ Head(bQueue).route = "lucky"
    /\ bBusy' = TRUE
    /\ bBusyFor' = 0
    /\ UNCHANGED <<luckyApiUrl, bState, bUptime, bQueue, bServed, bLoadFor,
                   bExit, bLast, wire, fVars>>

Min(a, b) == IF a < b THEN a ELSE b

\* A wait that does not hold the thread (a timer in the place of the loop):
\* the waits of all the /lucky requests the process holds run side by side
\* and end together.
HandleLuckyEndTogether(k) ==
    /\ bState = "Ready"
    /\ bBusy
    /\ BusyWaitOver
    /\ LET r == LuckyResp(LuckyNumber(k))
           lucky == { i \in 1 .. Len(bQueue) : bQueue[i].route = "lucky" }
       IN  /\ wire' = [c \in Clients |->
                         IF \E i \in lucky : bQueue[i].client = c THEN r ELSE wire[c]]
           /\ bLast' = [route |-> "lucky", resp |-> r, state |-> bState,
                        uptime |-> bUptime, waited |-> bBusyFor]
           /\ bQueue' = SelectSeq(bQueue, LAMBDA q : q.route # "lucky")
           /\ bServed' = Min(bServed + Cardinality(lucky), MaxServed)
    /\ bBusy' = FALSE
    /\ bBusyFor' = 0
    /\ UNCHANGED <<luckyApiUrl, bState, bUptime, bLoadFor, bExit, fVars>>

\* ... and, when the loop ends, draws the number and answers.
HandleLuckyEnd(k) ==
    /\ bState = "Ready"
    /\ bBusy
    /\ BusyWaitOver
    /\ Respond(LuckyResp(LuckyNumber(k)))
    /\ bBusy' = FALSE
    /\ bBusyFor' = 0
    /\ bServed' = Min(bServed + 1, MaxServed)
    /\ UNCHANGED <<luckyApiUrl, bState, bUptime, bLoadFor, bExit, fVars>>

\* A final handler that ends the process on a path no route matches.
HandleUnroutedCrashes ==
    /\ Idle
    /\ Head(bQueue).route \notin {"lucky", "ping"}
    /\ Respond(NotFound)
    /\ bState' = "Crashed"
    /\ bExit' = 1
    /\ UNCHANGED <<luckyApiUrl, bUptime, bBusy, bBusyFor, bServed, bLoadFor, fVars>>

\* Any other path (GET /crash included: no such route is registered) falls
\* through to express's final handler.
HandleUnrouted ==
    /\ Idle
    /\ Head(bQueue).route \notin {"lucky", "ping"}
    /\ Respond(NotFound)
    /\ UNCHANGED <<luckyApiUrl, bState, bUptime, bBusy, bBusyFor, bServed,
                   bLoadFor, bExit, fVars>>

\* ---------------------------------------------------------------- frontend
PingUrl == PingUrlOf(luckyApiUrl)    \* const PING_URL = ...

ResOk(code) == code >= 200 /\ code <= 299    \* res.ok

\* A console.error that prints its fixed text without err.message.
LogEntryWithoutMessage(line, err, url) == [line |-> line, err |-> "", url |-> NoUrl]

\* One console.error / console.log call: the source line, the text or error
\* message printed, and the URL that message spells out (NoUrl if none).
LogEntry(line, err, url) == [line |-> line, err |-> err, url |-> url]

\* checkLuckyNumberApp whose catch block returns true.
CheckSwallowsErrors(o, url) ==
    IF o.kind = "timeout"
    THEN [ok |-> TRUE, err |-> "network timeout at", url |-> url]
    ELSE IF o.kind # "resp"
    THEN [ok |-> TRUE, err |-> "request failed", url |-> url]
    ELSE IF ~ResOk(o.code)
    THEN [ok |-> TRUE, err |-> "Ping failed", url |-> NoUrl]
    ELSE IF ~o.json
    THEN [ok |-> TRUE, err |-> "invalid json response body at", url |-> url]
    ELSE IF o.status # "ok"
    THEN [ok |-> TRUE, err |-> "Ping returned unexpected status", url |-> NoUrl]
    ELSE [ok |-> TRUE, err |-> "", url |-> NoUrl]

\* checkLuckyNumberApp without its "if (!res.ok) throw".
CheckIgnoresResOk(o, url) ==
    IF o.kind = "timeout"
    THEN [ok |-> FALSE, err |-> "network timeout at", url |-> url]
    ELSE IF o.kind # "resp"
    THEN [ok |-> FALSE, err |-> "request failed", url |-> url]
    ELSE IF ~o.json
    THEN [ok |-> FALSE, err |-> "invalid json response body at", url |-> url]
    ELSE IF o.status # "ok"
    THEN [ok |-> FALSE, err |-> "Ping returned unexpected status", url |-> NoUrl]
    ELSE [ok |-> TRUE, err |-> "", url |-> NoUrl]

\* checkLuckyNumberApp(), from the settling of fetch(PING_URL, ...) on:
\* the value it resolves to, and the message of the error it caught (with
\* the URL that message carries, if any).
CheckLuckyNumberApp(o, url) ==
    IF o.kind = "timeout"
    THEN [ok |-> FALSE, err |-> "network timeout at", url |-> url]
    ELSE IF o.kind # "resp"
    THEN [ok |-> FALSE, err |-> "request failed", url |-> url]
    ELSE IF ~ResOk(o.code)
    THEN [ok |-> FALSE, err |-> "Ping failed", url |-> NoUrl]
    ELSE IF ~o.json
    THEN [ok |-> FALSE, err |-> "invalid json response body at", url |-> url]
    ELSE IF o.status # "ok"
    THEN [ok |-> FALSE, err |-> "Ping returned unexpected status", url |-> NoUrl]
    ELSE [ok |-> TRUE, err |-> "", url |-> NoUrl]

\* A continuation that starts over when the probe failed.
StartupThenRetries(ok) ==
    IF ~ok
    THEN [state |-> "NotStarted", exit |-> -1,
          log |-> <<LogEntry(54, "Startup aborted: lucky-number-app is not reachable.", NoUrl)>>]
    ELSE [state |-> "Listening", exit |-> -1,
          log |-> <<LogEntry(58, "Lucky Web App running on port", NoUrl)>>]

\* The continuation without its process.exit(1): it falls through to listen.
StartupThenFallsThrough(ok) ==
    [state |-> "Listening", exit |-> -1,
     log |-> (IF ok THEN <<>>
              ELSE <<LogEntry(54, "Startup aborted: lucky-number-app is not reachable.", NoUrl)>>)
             \o <<LogEntry(58, "Lucky Web App running on port", NoUrl)>>]

\* The continuation with process.exit(0).
StartupThenExitsZero(ok) ==
    IF ~ok
    THEN [state |-> "Exited", exit |-> 0,
          log |-> <<LogEntry(54, "Startup aborted: lucky-number-app is not reachable.", NoUrl)>>]
    ELSE [state |-> "Listening", exit |-> -1,
          log |-> <<LogEntry(58, "Lucky Web App running on port", NoUrl)>>]

\* checkLuckyNumberApp().then((ok) => { if (!ok) {...; process.exit(1);}
\*                                      app.listen(PORT, ...); })
StartupThen(ok) ==
    IF ~ok
    THEN [state |-> "Exited", exit |-> 1,
          log |-> <<LogEntry(54, "Startup aborted: lucky-number-app is not reachable.", NoUrl)>>]
    ELSE [state |-> "Listening", exit |-> -1,
          log |-> <<LogEntry(58, "Lucky Web App running on port", NoUrl)>>]

\* fetch(PING_URL) without the timeout option.
ProbeTimerMissing == FALSE

\* fetch(PING_URL, { timeout: 2000 }): the request timeout is armed.
ProbeTimerArmed == TRUE

ProbeTimerDue == ProbeTimerArmed /\ probeElapsed >= ProbeTimeout

\* The orchestrator launches the frontend process: the module body runs,
\* registers the route and calls checkLuckyNumberApp(), which sends the probe.
StartFrontend ==
    /\ fState = "NotStarted"
    /\ fState' = "Probing"
    /\ probeElapsed' = 0
    /\ probeSent' = [state |-> bState, blocked |-> LuckyPending]
    /\ Deliver(Probe, HostOf(PingUrl), RouteOfPath(PathOf(PingUrl)), {"refused", "lost"})
    /\ UNCHANGED <<luckyApiUrl, bState, bUptime, bBusy, bBusyFor, bServed,
                   bLoadFor, bExit,
                   bLast, gate, probeOutcome, fExit, fLog, fReq, fPending,
                   fLast>>

\* How the pending fetch of the probe can settle now: with what is on the
\* wire while the timer has not fired, with the timeout once it is due.
ProbeOutcomes ==
    IF ProbeTimerDue
    THEN {Plain("timeout")}
    ELSE IF wire[Probe].kind \in {"resp", "refused", "reset"}
    THEN {wire[Probe]}
    ELSE {}

\* A continuation that tests the promise and not its value: a promise is
\* truthy, so the listener is bound at once, whatever the probe does.
GateSettlesUnawaited ==
    /\ fState = "Probing"
    /\ gate' = "Proceed"
    /\ fLog' = fLog \o StartupThen(TRUE).log
    /\ fState' = StartupThen(TRUE).state
    /\ fExit' = StartupThen(TRUE).exit
    /\ UNCHANGED <<luckyApiUrl, bVars, wire, probeElapsed, probeOutcome,
                   probeSent, fReq, fPending, fLast>>

\* checkLuckyNumberApp without its try/catch: a failure inside it rejects
\* the promise, and the continuation passed to then() never runs.
GateSettlesUncaught ==
    /\ fState = "Probing"
    /\ \E o \in ProbeOutcomes :
         LET res == CheckLuckyNumberApp(o, PingUrl)
             nxt == StartupThen(res.ok)
         IN  /\ res.ok
             /\ probeOutcome' = o
             /\ gate' = "Proceed"
             /\ fLog' = fLog \o nxt.log
             /\ fState' = nxt.state
             /\ fExit' = nxt.exit
    /\ UNCHANGED <<luckyApiUrl, bVars, wire, probeElapsed, probeSent, fReq,
                   fPending, fLast>>

\* The probe settles: the rest of checkLuckyNumberApp and the startup
\* continuation run.
GateSettles ==
    /\ fState = "Probing"
    /\ \E o \in ProbeOutcomes :
         LET res == CheckLuckyNumberApp(o, PingUrl)
             nxt == StartupThen(res.ok)
         IN  /\ probeOutcome' = o
             /\ gate' = IF res.ok THEN "Proceed" ELSE "Abort"
             /\ fLog' = fLog
                        \o (IF res.ok THEN <<>>
                            ELSE <<LogEntry(20, res.err, res.url)>>)
                        \o nxt.log
             /\ fState' = nxt.state
             /\ fExit' = nxt.exit
    /\ UNCHANGED <<luckyApiUrl, bVars, wire, probeElapsed, probeSent, fReq,
                   fPending, fLast>>

\* fetch(LUCKY_API_URL, { timeout: 2000 }), as the probe has it.
ForwardTimerSet == TRUE

\* fetch(LUCKY_API_URL): no timeout option, so no request timeout is armed.
ForwardTimerArmed == FALSE

ForwardTimerDue(c) == ForwardTimerArmed /\ fPending[c] >= ProbeTimeout

\* The fetch of an inbound request has settled.
ForwardSettled(c) ==
    /\ fState = "Listening"
    /\ fReq[c] = "awaiting"
    /\ wire[c].kind \in {"resp", "refused", "reset"} \/ ForwardTimerDue(c)

\* The backend's event loop has something to run now.
BackendRunnable ==
    \/ bState = "Starting" /\ StartupElapsed
    \/ Idle
    \/ bBusy /\ BusyWaitOver

\* The frontend's event loop has something to run now.
FrontendRunnable ==
    \/ fState = "Probing" /\ ProbeOutcomes # {}
    \/ \E c \in Inbound : ForwardSettled(c)

\* A frontend that takes an inbound request only when it is awaiting no
\* backend response, as if the await held the event loop.
InboundArrivesAlone(c) ==
    /\ c \in Inbound
    /\ fState = "Listening"
    /\ ~FrontendRunnable /\ ~BackendRunnable
    /\ \A d \in Inbound : fReq[d] = "idle"
    /\ \A d \in Inbound : d[2] >= c[2]
    /\ fReq' = [fReq EXCEPT ![c] = "awaiting"]
    /\ Deliver(c, HostOf(luckyApiUrl), RouteOfPath(PathOf(luckyApiUrl)), {"refused", "lost"})
    /\ UNCHANGED <<luckyApiUrl, bState, bUptime, bBusy, bBusyFor, bServed,
                   bLoadFor, bExit,
                   bLast, fState, gate, probeElapsed, probeOutcome, probeSent,
                   fExit, fLog, fPending, fLast>>

\* app.get('/'): an inbound request reaches the listener (on the lowest idle
\* connection) and the handler calls fetch(LUCKY_API_URL), without a timeout.
\* A request that arrives while an event loop has callbacks to run is taken
\* after them: they take no time, so this is the same instant.
InboundArrives(c) ==
    /\ c \in Inbound
    /\ fState = "Listening"
    /\ ~FrontendRunnable /\ ~BackendRunnable
    /\ fReq[c] = "idle"
    /\ \A d \in Inbound : d[2] < c[2] => fReq[d] # "idle"
    /\ fReq' = [fReq EXCEPT ![c] = "awaiting"]
    /\ Deliver(c, HostOf(luckyApiUrl), RouteOfPath(PathOf(luckyApiUrl)), {"refused", "lost"})
    /\ UNCHANGED <<luckyApiUrl, bState, bUptime, bBusy, bBusyFor, bServed,
                   bLoadFor, bExit,
                   bLast, fState, gate, probeElapsed, probeOutcome, probeSent,
                   fExit, fLog, fPending, fLast>>

\* A catch block that gives up on the backend: it answers 500 and calls
\* process.exit(1).
ForwardFailureExits(o) ==
    IF o.kind # "resp" \/ ~o.json
    THEN [code |-> 500, number |-> -1, logged |-> TRUE, exit |-> 1, sent |-> 1]
    ELSE [code |-> 200, number |-> o.lucky, logged |-> FALSE, exit |-> -1,
          sent |-> 1]

\* The handler without its try/catch: a failed fetch or an unparseable body
\* is an unhandled rejection, which ends the process with no answer sent.
ForwardWithoutCatch(o) ==
    IF o.kind # "resp" \/ ~o.json
    THEN [code |-> 0, number |-> -1, logged |-> TRUE, exit |-> 1, sent |-> 0]
    ELSE [code |-> 200, number |-> o.lucky, logged |-> FALSE, exit |-> -1,
          sent |-> 1]

\* A handler that sends the page before response.json() is awaited: when
\* the body does not parse, the catch block sends once more.
ForwardSendsEarly(o) ==
    IF o.kind # "resp"
    THEN [code |-> 500, number |-> -1, logged |-> TRUE, exit |-> -1, sent |-> 1]
    ELSE IF ~o.json
    THEN [code |-> 200, number |-> -1, logged |-> TRUE, exit |-> -1, sent |-> 2]
    ELSE [code |-> 200, number |-> o.lucky, logged |-> FALSE, exit |-> -1,
          sent |-> 1]

\* A handler that checks response.ok and the luckyNumber field before it
\* renders, and throws if either is missing.
ForwardChecksReply(o) ==
    IF o.kind # "resp" \/ ~o.json \/ ~ResOk(o.code) \/ o.lucky = -1
    THEN [code |-> 500, number |-> -1, logged |-> TRUE, exit |-> -1, sent |-> 1]
    ELSE [code |-> 200, number |-> o.lucky, logged |-> FALSE, exit |-> -1,
          sent |-> 1]

\* The rest of the GET / handler once its fetch settled with o: the status
\* it answers with, the number it renders (-1: luckyNumber undefined),
\* whether the catch block ran console.error, the exit code of the process
\* if the handler ends it (-1: it does not), and how many times it called
\* res.send.
ForwardResult(o) ==
    IF o.kind # "resp" \/ ~o.json
    THEN [code |-> 500, number |-> -1, logged |-> TRUE, exit |-> -1, sent |-> 1]
    ELSE [code |-> 200, number |-> o.lucky, logged |-> FALSE, exit |-> -1,
          sent |-> 1]

\* The text React writes for the child {number}: the decimal digits of a
\* number, nothing for undefined.
RECURSIVE Digits(_)
Digits(n) ==
    IF n < 0 THEN <<>>
    ELSE IF n < 10 THEN <<n>>
    ELSE Digits(n \div 10) \o <<n % 10>>

\* A page whose number element has no child.
LuckyPageStatic(number) == <<"Your Lucky Number">>

\* LuckyPage({ number }): the heading, then the number element.
LuckyPage(number) == <<"Your Lucky Number">> \o Digits(number)

\* res.send(...) of the rendered page, or the text the catch block sends.
Body(res) ==
    IF res.code = 200 THEN LuckyPage(res.number)
    ELSE <<"Failed to fetch lucky number">>

\* A handler that calls the backend again when its fetch failed.
ForwardSettlesRetrying(c) ==
    /\ c \in Inbound
    /\ ForwardSettled(c)
    /\ IF wire[c].kind # "resp"
       THEN /\ Deliver(c, HostOf(luckyApiUrl), RouteOfPath(PathOf(luckyApiUrl)),
                       {"refused", "lost"})
            /\ UNCHANGED <<luckyApiUrl, bState, bUptime, bBusy, bBusyFor, bServed,
                           bLoadFor, bExit, bLast, fVars>>
       ELSE /\ LET res == ForwardResult(wire[c])
               IN  fLast' = [code |-> res.code, number |-> res.number,
                             logged |-> res.logged, body |-> Body(res),
                             upstreamOk |-> ResOk(wire[c].code),
                             sent |-> res.sent]
            /\ fReq' = [fReq EXCEPT ![c] = "idle"]
            /\ fPending' = [fPending EXCEPT ![c] = 0]
            /\ wire' = [wire EXCEPT ![c] = Plain("idle")]
            /\ UNCHANGED <<luckyApiUrl, bVars, fState, fExit, gate, probeElapsed,
                           probeOutcome, probeSent, fLog>>

\* The fetch of an inbound request settles: the handler answers, and the
\* connection is free for the next inbound request.
ForwardSettles(c) ==
    /\ c \in Inbound
    /\ ForwardSettled(c)
    /\ LET o == IF ForwardTimerDue(c) THEN Plain("timeout") ELSE wire[c]
           res == ForwardResult(o)
       IN  /\ fLast' = [code |-> res.code, number |-> res.number,
                        logged |-> res.logged, body |-> Body(res),
                        upstreamOk |-> ResOk(o.code), sent |-> res.sent]
           /\ fState' = IF res.exit = -1 THEN fState ELSE "Exited"
           /\ fExit' = IF res.exit = -1 THEN fExit ELSE res.exit
    /\ fReq' = [fReq EXCEPT ![c] = "idle"]
    /\ fPending' = [fPending EXCEPT ![c] = 0]
    /\ wire' = [wire EXCEPT ![c] = Plain("idle")]
    /\ UNCHANGED <<luckyApiUrl, bVars, gate, probeElapsed, probeOutcome,
                   probeSent, fLog>>

\* -------------------------------------------------------------------- time
\* One second passes while no process has anything to run; the answers of
\* the second that ends are no longer the last ones observed.
Tick ==
    /\ ~BackendRunnable
    /\ ~FrontendRunnable
    /\ bUptime' = IF bState = "Starting" /\ bUptime < StartupDelay
                  THEN bUptime + 1 ELSE bUptime
    /\ bBusyFor' = IF bBusy /\ bBusyFor < LuckyDelay THEN bBusyFor + 1 ELSE bBusyFor
    /\ bServed' = IF bBusy THEN bServed ELSE 0
    /\ bLoadFor' = IF bBusy THEN Min(bLoadFor + 1, MaxServed * LuckyDelay) ELSE 0
    /\ probeElapsed' = IF fState = "Probing" /\ probeElapsed <= ProbeTimeout
                       THEN probeElapsed + 1 ELSE probeElapsed
    /\ bLast' = NoLast
    /\ fLast' = NoAnswer
    /\ fPending' = [c \in Inbound |->
                      IF fReq[c] = "awaiting" THEN Min(fPending[c] + 1, MaxStall)
                      ELSE 0]
    /\ UNCHANGED <<luckyApiUrl, bState, bQueue, bBusy, bExit, wire,
                   fState, gate, probeOutcome, probeSent, fExit, fLog, fReq>>

Next ==
    \/ StartBackend
    \/ StartupTimerFires
    \/ KillBackend
    \/ \E r \in ExtRoutes : ExtSend(r)
    \/ HandlePing
    \/ HandleLuckyBegin
    \/ \E k \in Draws : HandleLuckyEnd(k)
    \/ HandleUnrouted
    \/ StartFrontend
    \/ GateSettles
    \/ \E c \in InboundOf(MaxInbound) : InboundArrives(c)
    \/ \E c \in Inbound : ForwardSettles(c)
    \/ Tick

\* The two processes of the repository, started, called and killed in any
\* order, with LUCKY_API_URL naming the backend.
Init == InitOf(BackendUrls)

Spec == Init /\ [][Next]_vars

\* The frontend alone, with LUCKY_API_URL naming another server that may
\* answer anything, late or never.
FrontInit == InitOf(ForeignUrls)

FrontNext ==
    \/ StartFrontend
    \/ \E c \in Clients : ForeignAnswer(c)
    \/ GateSettles
    \/ \E c \in InboundOf(MaxInbound) : InboundArrives(c)
    \/ \E c \in Inbound : ForwardSettles(c)
    \/ Tick

FrontSpec == FrontInit /\ [][FrontNext]_vars

\* The frontend up to the decision of its gate: no inbound request is taken
\* before the listener is bound, so nothing else runs in the process.
GateNext ==
    \/ StartFrontend
    \/ ForeignAnswer(Probe)
    \/ GateSettles
    \/ Tick

\* The frontend's event loop runs the callback of a settled fetch, and time
\* passes.
GateFairness ==
    /\ SF_vars(Tick)
    /\ WF_vars(GateSettles)

GateFairSpec == FrontInit /\ [][GateNext]_vars /\ GateFairness

\* Both processes up and staying up: the backend is Ready, the frontend with
\* the default LUCKY_API_URL has probed it, got its ok and bound its listener
\* (a state Spec reaches); from there on, external and inbound requests.
ServeInit ==
    /\ luckyApiUrl = Url("b", <<"/", "lucky">>)
    /\ bState = "Ready"
    /\ bUptime = StartupDelay
    /\ bQueue = <<>>
    /\ bBusy = FALSE
    /\ bBusyFor = 0
    /\ bServed = 0
    /\ bLoadFor = 0
    /\ bExit = -1
    /\ bLast = NoLast
    /\ wire = [c \in Clients |-> IF c = Probe THEN PingOk ELSE Plain("idle")]
    /\ fState = "Listening"
    /\ gate = "Proceed"
    /\ probeElapsed = 0
    /\ probeOutcome = PingOk
    /\ probeSent = [state |-> "Ready", blocked |-> FALSE]
    /\ fExit = -1
    /\ fLog = StartupThen(TRUE).log
    /\ fReq = [c \in Inbound |-> "idle"]
    /\ fPending = [c \in Inbound |-> 0]
    /\ fLast = NoAnswer

ServeNext ==
    \/ \E r \in ExtRoutes : ExtSend(r)
    \/ HandlePing
    \/ HandleLuckyBegin
    \/ \E k \in Draws : HandleLuckyEnd(k)
    \/ HandleUnrouted
    \/ \E c \in InboundOf(MaxParallel) : InboundArrives(c)
    \/ \E c \in Inbound : ForwardSettles(c)
    \/ Tick

ServeSpec == ServeInit /\ [][ServeNext]_vars

\* Time cannot be held back by launching, killing or calling processes ever
\* faster (strong fairness of Tick), and an event loop runs what it can run.
Fairness ==
    /\ SF_vars(Tick)
    /\ WF_vars(StartupTimerFires)
    /\ WF_vars(HandlePing)
    /\ WF_vars(HandleLuckyBegin)
    /\ WF_vars(\E k \in Draws : HandleLuckyEnd(k))
    /\ WF_vars(HandleUnrouted)
    /\ WF_vars(GateSettles)
    /\ WF_vars(\E c \in Inbound : ForwardSettles(c))

FairSpec == Spec /\ Fairness

\* ================================================================== claims

\* The GET / handler has run for some inbound request.
Handled == fLast # NoAnswer \/ \E c \in Inbound : fReq[c] # "idle"

\* C1: the frontend's listener is bound, and an inbound request is handled,
\* only after the gate decided Proceed; once the gate has decided Abort the
\* decision stays, the listener is never bound and no inbound request is
\* ever handled.
C1_ListenerOnlyAfterProceed ==
    /\ [](fState = "Listening" => gate = "Proceed")
    /\ [](Handled => gate = "Proceed")
    /\ [][gate = "Abort" =>
            /\ gate' = "Abort"
            /\ fState' # "Listening"
            /\ ~Handled']_vars

\* The gate aborted on an answer of the backend, which is Ready and up: the
\* frontend has exited and has handled nothing.
C1_Witness ==
    /\ gate = "Abort"
    /\ probeOutcome.kind = "resp"
    /\ bState = "Ready"
    /\ fState = "Exited"
    /\ ~Handled

\* C2: the gate's decision follows the decision table: Proceed exactly when
\* the probe got a response with a success status code whose body is JSON
\* with status "ok"; Abort for every other outcome.
C2_DecisionTable ==
    gate # "Undecided" =>
        /\ gate \in {"Proceed", "Abort"}
        /\ gate = "Proceed" <=>
              /\ probeOutcome.kind = "resp"
              /\ probeOutcome.code \in 200 .. 299
              /\ probeOutcome.json
              /\ probeOutcome.status = "ok"

\* The gate aborted on a response whose status code indicates failure although
\* its body says "ok".
C2_Witness ==
    /\ gate = "Abort"
    /\ probeOutcome.kind = "resp"
    /\ probeOutcome.code = 503
    /\ probeOutcome.status = "ok"

ProbesBackendPing ==
    HostOf(PingUrl) = "b" /\ RouteOfPath(PathOf(PingUrl)) = "ping"

\* The probe was sent to the /ping of a Ready backend, and that backend was
\* not killed while the probe waited.
ProbeMetReady ==
    /\ gate # "Undecided"
    /\ ProbesBackendPing
    /\ probeSent.state = "Ready"
    /\ probeOutcome.kind # "reset"

\* C3 as stated: every probe made after the backend reached Ready (and not
\* crashed) yields Proceed, also when it arrives during a /lucky busy wait.
C3_AlwaysProceedWhenReady == ProbeMetReady => gate = "Proceed"

\* C3 amended: a probe made after Ready yields Proceed when no /lucky request
\* is in its busy wait or queued at that moment; when it yields Abort, a
\* /lucky request was pending and the probe timed out behind it.
C3_ProceedUnlessBlocked ==
    ProbeMetReady =>
        /\ ~probeSent.blocked => gate = "Proceed"
        /\ gate = "Abort" => probeSent.blocked /\ probeOutcome.kind = "timeout"

\* A probe that met an unoccupied Ready backend was answered ok.
C3_Witness ==
    /\ ProbeMetReady
    /\ ~probeSent.blocked
    /\ gate = "Proceed"
    /\ probeOutcome = PingOk

\* C4: the backend answers /ping with {"status":"ok"} exactly when it is
\* Ready: every ok answer was produced by a Ready process whose startup delay
\* had elapsed, every /ping a Ready process handles gets that answer, and a
\* process that is not Ready holds no request at all.
C4_PingOkIffReady ==
    /\ (bLast.route = "ping" /\ bLast.resp.status = "ok") =>
            bLast.state = "Ready" /\ bLast.uptime >= StartupDelay
    /\ (bLast.route = "ping" /\ bLast.state = "Ready") => bLast.resp = PingOk
    /\ bLast.resp.kind = "resp" => bLast.uptime >= StartupDelay
    /\ bState # "Ready" => bQueue = <<>>

\* A /ping was answered ok by a process that had waited its startup delay.
C4_Witness ==
    /\ bLast.route = "ping"
    /\ bLast.resp = PingOk
    /\ bLast.state = "Ready"
    /\ bLast.uptime = StartupDelay

\* C5: a backend process that is not killed leaves Starting and becomes Ready,
\* and every /ping it handles is answered 200 with exactly {"status":"ok"}.
C5_BecomesReadyAndPingsOk ==
    /\ (bState = "Starting") ~> (bState \in {"Ready", "Killed"})
    /\ [](bLast.route = "ping" => bLast.resp = Resp(200, TRUE, "ok", -1, "absent"))

\* A Ready process has answered a /ping.
C5_Witness ==
    /\ bState = "Ready"
    /\ bLast.route = "ping"
    /\ bLast.resp.code = 200

\* C6: the gate always decides, and never later than the probe timeout after
\* the probe was sent; a probe sent while the backend is not listening, or
\* that is never answered, yields Abort.
C6_GateDecidesWithinTimeout ==
    /\ (fState = "Probing") ~> (gate # "Undecided")
    /\ [](probeElapsed <= ProbeTimeout)
    /\ []((gate # "Undecided" /\ HostOf(PingUrl) = "b" /\ probeSent.state # "Ready")
            => gate = "Abort")
    /\ []((gate # "Undecided" /\ probeOutcome.kind = "timeout")
            => gate = "Abort" /\ probeElapsed = ProbeTimeout)

\* The probe of a backend that was not running got no answer at all and the
\* gate aborted when the timeout expired.
C6_Witness ==
    /\ gate = "Abort"
    /\ probeSent.state = "NotRunning"
    /\ wire[Probe].kind = "lost"
    /\ probeOutcome.kind = "timeout"
    /\ probeElapsed = ProbeTimeout

\* C7: whenever the gate decides Abort the frontend process has exited with a
\* non-zero code, without a listener; it never exits with code zero.
C7_AbortExitsNonZero ==
    /\ gate = "Abort" => fState = "Exited" /\ fExit # -1 /\ fExit # 0
    /\ fState = "Exited" => gate = "Abort"
    /\ fExit # 0

\* The gate aborted on a refused connection and the process exited with 1.
C7_Witness ==
    /\ gate = "Abort"
    /\ probeOutcome.kind = "refused"
    /\ fState = "Exited"
    /\ fExit = 1

\* C8 as stated: on every Abort, whatever its cause, the frontend has logged
\* an entry that spells out the probed address (the ping URL).
C8_AbortLogsProbedUrl ==
    gate = "Abort" => \E i \in 1 .. Len(fLog) : fLog[i].url = PingUrl

FetchFailed == probeOutcome.kind \in {"timeout", "refused", "reset"}

BadStatusCode == probeOutcome.kind = "resp" /\ ~ResOk(probeOutcome.code)

BadStatusField ==
    /\ probeOutcome.kind = "resp"
    /\ ResOk(probeOutcome.code)
    /\ probeOutcome.json
    /\ probeOutcome.status # "ok"

\* C8 amended: on every Abort the frontend has logged, before exiting, the
\* "Could not reach" entry with the error's message and then the "Startup
\* aborted" entry; the message spells out the probed URL when the fetch itself
\* failed (timeout, refused or dropped connection), and is the fixed text
\* without any URL when the cause is a failure status code or a status field
\* other than "ok".
C8_AbortLogsDiagnostic ==
    gate = "Abort" =>
        /\ fState = "Exited"
        /\ Len(fLog) >= 2
        /\ fLog[Len(fLog) - 1].line = 20
        /\ fLog[Len(fLog)].line = 54
        /\ FetchFailed => fLog[Len(fLog) - 1].url = PingUrl
        /\ BadStatusCode => /\ fLog[Len(fLog) - 1].err = "Ping failed"
                            /\ \A i \in 1 .. Len(fLog) : fLog[i].url = NoUrl
        /\ BadStatusField => /\ fLog[Len(fLog) - 1].err = "Ping returned unexpected status"
                             /\ \A i \in 1 .. Len(fLog) : fLog[i].url = NoUrl

\* The gate aborted on a 200 answer whose status field is not "ok": the log
\* names the endpoint but no URL.
C8_Witness ==
    /\ gate = "Abort"
    /\ BadStatusField
    /\ Len(fLog) = 2
    /\ fLog[1].err = "Ping returned unexpected status"
    /\ fLog[1].url = NoUrl

\* C9 as stated: a GET /crash handled by a Ready backend is answered with
\* 200 {"message": "Server will crash now!"} and the process has then
\* terminated with a non-zero exit status (ServiceState Crashed).
C9_CrashAckThenExit ==
    bLast.route = "crash" =>
        /\ bLast.resp = CrashAck
        /\ bState = "Crashed"
        /\ bExit > 0

\* C10 as stated: once a GET /crash has been handled, this backend process
\* answers no further request and runs no /lucky wait.
C10_UnreachableAfterCrash ==
    [][bLast.route = "crash" =>
          /\ bLast' \in {bLast, NoLast}
          /\ ~(bState' = "Ready" /\ Len(bQueue') < Len(bQueue))
          /\ ~bBusy']_vars

C12_FourDigitNumber ==
    bLast.route = "lucky" => bLast.resp.lucky \in 1000 .. 9999

\* C13: a /lucky request is answered only after its handler has spent the
\* whole processing delay in its wait, counted from the moment the backend
\* began to handle that request; the wait belongs to the request at the head
\* of the queue, starts at zero, is never restarted, and the request leaves
\* the queue of a living process by no other way than the end of that wait.
C13_LuckyAfterFullWait ==
    /\ [](bLast.route = "lucky" => bLast.waited >= LuckyDelay)
    /\ [](bBusy => bQueue # <<>> /\ Head(bQueue).route = "lucky")
    /\ [][(~bBusy /\ bBusy') => (bBusyFor' = 0 /\ bQueue' = bQueue)]_vars
    /\ [][(bBusy /\ bBusy') => (bBusyFor' >= bBusyFor /\ bQueue' # <<>>
                                  /\ Head(bQueue') = Head(bQueue))]_vars
    /\ [][(/\ bState' = "Ready"
            /\ bQueue # <<>>
            /\ Head(bQueue).route = "lucky"
            /\ bQueue' = Tail(bQueue))
              => (bBusy /\ bBusyFor >= LuckyDelay /\ ~bBusy')]_vars

\* A /lucky has just been answered, after a wait of the processing delay.
C13_Witness ==
    /\ bLast.route = "lucky"
    /\ bLast.waited = LuckyDelay
    /\ ~bBusy
    /\ bBusyFor = 0

\* The frontend forwards to the backend's /lucky.
ForwardsToLucky ==
    HostOf(luckyApiUrl) = "b" /\ RouteOfPath(PathOf(luckyApiUrl)) = "lucky"

\* C14: while the backend is Starting it holds no request, is in no busy wait
\* and has answered nothing; a request sent to it then is refused or gets no
\* answer; and every luckyNumber was produced by a Ready process whose startup
\* delay had elapsed.
C14_NoLuckyWhileStarting ==
    /\ [](bState = "Starting" => bQueue = <<>> /\ ~bBusy /\ bLast = NoLast)
    /\ [](bLast.route = "lucky" =>
              bLast.state = "Ready" /\ bLast.uptime >= StartupDelay)
    /\ [][(bState = "Starting" /\ bState' = "Starting") =>
            \A c \in Clients :
                (wire[c].kind = "idle" /\ wire'[c].kind # "idle") =>
                    wire'[c].kind \in {"refused", "lost"}]_vars

\* A forward to /lucky that arrived at a backend one second or more into its
\* startup delay has just been refused (time does not pass before a refused
\* fetch settles, so the request arrived in this very second).
C14_Witness ==
    /\ bState = "Starting"
    /\ bUptime > 0
    /\ ForwardsToLucky
    /\ \E c \in Inbound : fReq[c] = "awaiting" /\ wire[c].kind = "refused"

\* The fetch of a forward failed, or its body cannot be parsed.
ForwardFailed(o) == o.kind # "resp" \/ ~o.json

C16_LuckySerially ==
    /\ [](bServed * LuckyDelay <= bLoadFor)
    /\ [][(bState = "Ready" /\ bState' = "Ready") =>
            \/ bQueue' = bQueue
            \/ bQueue # <<>> /\ bQueue' = Tail(bQueue)
            \/ Len(bQueue') = Len(bQueue) + 1 /\ SubSeq(bQueue', 1, Len(bQueue)) = bQueue]_vars
    /\ [][bServed' > bServed => (bBusy /\ bBusyFor >= LuckyDelay /\ bServed' = bServed + 1)]_vars

\* The second of two /lucky requests held together has just been answered,
\* two processing delays after the wait of the first began.
C16_Witness ==
    /\ bServed = 2
    /\ bLoadFor = 2 * LuckyDelay
    /\ bLast.route = "lucky"
    /\ ~bBusy

\* A busyWait is in progress: its loop has not run for the processing delay.
InBusyWait == bBusy /\ bBusyFor < LuckyDelay

\* C17: while a /lucky handler is in its busy wait the backend answers no
\* request on any route: no request leaves its queue, no client it holds gets
\* an answer and it produces no response; whatever arrives is held, and the
\* first answer after the wait is the one of that /lucky request.
C17_NothingHandledDuringWait ==
    /\ [][(InBusyWait /\ bState' = "Ready") =>
            /\ bLast' \in {bLast, NoLast}
            /\ Len(bQueue') >= Len(bQueue)
            /\ SubSeq(bQueue', 1, Len(bQueue)) = bQueue
            /\ \A c \in Clients : wire[c].kind = "queued" => wire'[c] = wire[c]]_vars
    /\ [][(bBusy /\ bState' = "Ready" /\ Len(bQueue') < Len(bQueue)) =>
            /\ bBusyFor >= LuckyDelay
            /\ bQueue' = Tail(bQueue)
            /\ bLast'.route = "lucky"]_vars

\* Seconds into a busy wait, the backend holds a /ping request
\* behind the /lucky request being handled.
C17_Witness ==
    /\ InBusyWait
    /\ bBusyFor > 0
    /\ \E i \in 2 .. Len(bQueue) : bQueue[i].route = "ping"

\* C18: within the life of a backend process ServiceState changes only from
\* Starting to Ready, when the startup delay has elapsed, and from Ready to
\* Crashed, on a fault-injection request; the only other changes are the
\* orchestrator's: killing a process, and launching a fresh one (Starting,
\* nothing answered, nothing held) where none runs.  Taking a request into its
\* wait and answering a request leave ServiceState as it is.
C18_ServiceStateTransitions ==
    /\ [][bState' # bState =>
            \/ bState = "Starting" /\ bState' = "Ready" /\ bUptime >= StartupDelay
            \/ /\ bState = "Ready" /\ bState' = "Crashed"
               /\ bQueue # <<>> /\ Head(bQueue).route = "crash"
            \/ bState \in {"Starting", "Ready"} /\ bState' = "Killed"
            \/ /\ bState \in {"NotRunning", "Killed", "Crashed"}
               /\ bState' = "Starting"
               /\ bUptime' = 0 /\ bQueue' = <<>> /\ bLast' = NoLast]_vars
    /\ [][(bState = "Ready" /\ bState' # "Killed"
            /\ (bLast' # bLast \/ bBusy' # bBusy \/ bQueue' # bQueue))
              => bState' = "Ready"]_vars

\* A process that became Ready when its startup delay elapsed has answered a
\* /lucky or a /ping request and is Ready still.
C18_Witness ==
    /\ bState = "Ready"
    /\ bUptime = StartupDelay
    /\ bLast.route \in {"lucky", "ping"}
    /\ bLast.state = "Ready"
    /\ bLast.resp.code = 200

\* C19: in the life of a frontend process the probe is sent once, when the
\* process starts and so before the listener is bound; the process never
\* returns to an earlier stage; the gate is undecided exactly until that one
\* probe settles, and the decision and the outcome it rests on never change:
\* a failed probe is not retried.
C19_GateRunsOnce ==
    /\ [][(/\ wire'[Probe] # wire[Probe]
            /\ wire'[Probe].kind \in {"queued", "atX", "refused", "lost"})
              => (/\ fState = "NotStarted"
                  /\ fState' = "Probing"
                  /\ wire[Probe].kind = "idle")]_vars
    /\ [][fState # "NotStarted" => (fState' # "NotStarted")]_vars
    /\ [][(fState = "Listening" \/ fState = "Exited") => (fState' = fState)]_vars
    /\ [][gate # "Undecided" =>
            (gate' = gate /\ probeOutcome' = probeOutcome /\ probeSent' = probeSent)]_vars
    /\ [](gate = "Undecided" <=> fState \in {"NotStarted", "Probing"})
    /\ [](fState = "Listening" => probeSent.state # "none")

\* The probe was refused and the gate aborted; the backend has become Ready
\* since and would answer a second probe, which is never sent.
C19_Witness ==
    /\ gate = "Abort"
    /\ fState = "Exited"
    /\ probeOutcome.kind = "refused"
    /\ wire[Probe].kind = "refused"
    /\ ProbesBackendPing
    /\ bState = "Ready"

\* C20: a probe sent while the backend is Starting makes the gate decide
\* Abort, and until then has been refused or is without answer; the gate
\* decides Proceed only on a probe sent to a Ready backend, that is after its
\* startup delay.
C20_ProbeWhileStartingAborts ==
    /\ (gate # "Undecided" /\ probeSent.state = "Starting") => gate = "Abort"
    /\ (fState = "Probing" /\ probeSent.state = "Starting") =>
            wire[Probe].kind \in {"refused", "lost"}
    /\ gate = "Proceed" => probeSent.state = "Ready"

\* The frontend was started during the backend's startup delay and its probe
\* got no answer: the gate aborted on the timeout although the backend has
\* become Ready meanwhile.
C20_Witness ==
    /\ gate = "Abort"
    /\ probeSent.state = "Starting"
    /\ probeOutcome.kind = "timeout"
    /\ ProbesBackendPing
    /\ bState = "Ready"
    /\ bLast = NoLast

\* C21: once the gate has decided Proceed, whatever happens to the backend
\* the decision stays Proceed, the frontend stays listening and does not
\* exit, and no probe is sent again: the probe's request, what is recorded of
\* it and the startup log stay as they are.
C21_NoRegating ==
    [][gate = "Proceed" =>
        /\ gate' = "Proceed"
        /\ fState' = "Listening"
        /\ fExit' = -1
        /\ wire'[Probe] = wire[Probe]
        /\ probeSent' = probeSent
        /\ probeOutcome' = probeOutcome
        /\ fLog' = fLog]_vars

\* The backend the gate found Ready was killed and launched again: a forward
\* to the new, still Starting process has just failed, and the frontend is
\* listening with its decision unchanged.
C21_Witness ==
    /\ gate = "Proceed"
    /\ fState = "Listening"
    /\ bState = "Starting"
    /\ fLast.code = 500
    /\ wire[Probe] = PingOk

\* C22: the frontend never ends a pending forward on its own: the inbound
\* request is answered only when its backend call got a response or its
\* connection was refused or dropped, however long that takes; while the
\* backend holds the call, the inbound request stays pending.
C22_ForwardHasNoTimeout ==
    /\ [][\A c \in Inbound :
            (fReq[c] = "awaiting" /\ fReq'[c] = "idle") =>
                wire[c].kind \in {"resp", "refused", "reset"}]_vars
    /\ [](\A c \in Inbound :
            (fReq[c] = "awaiting" /\ wire[c].kind = "queued") =>
                /\ ~ForwardSettled(c)
                /\ \E i \in 1 .. Len(bQueue) : bQueue[i].client = c)

\* The backend has held a forwarded call for longer than the probe's timeout,
\* for as long as the model times it, and the inbound request is pending still.
C22_Witness ==
    \E c \in Inbound :
        /\ fReq[c] = "awaiting"
        /\ wire[c].kind = "queued"
        /\ fPending[c] = MaxStall
        /\ fPending[c] > ProbeTimeout

\* The calls of connection c the backend holds.
CallsHeld(c) == { i \in 1 .. Len(bQueue) : bQueue[i].client = c }

\* A call has just been put on the wire of connection c.
CallSent(c) ==
    /\ wire'[c] # wire[c]
    /\ wire'[c].kind \in {"queued", "atX", "refused", "lost"}

\* C23: an inbound request being handled has one call to the endpoint named
\* by LUCKY_API_URL on the wire, never none; the backend holds at most one
\* call of it; a call is sent only in the step that takes an inbound request,
\* so none is sent again after a failure; a connection without a request has
\* no call.
C23_OneCallPerInbound ==
    /\ [](\A c \in Inbound :
            /\ Cardinality(CallsHeld(c)) <= 1
            /\ fReq[c] = "awaiting" => wire[c].kind # "idle"
            /\ fReq[c] = "idle" => (wire[c].kind = "idle" /\ CallsHeld(c) = {})
            /\ \A i \in CallsHeld(c) :
                  bQueue[i].route = RouteOfPath(PathOf(luckyApiUrl)))
    /\ [][\A c \in Inbound :
            /\ CallSent(c) => (fReq[c] = "idle" /\ fReq'[c] = "awaiting")
            /\ (fReq[c] = "idle" /\ fReq'[c] = "awaiting") => CallSent(c)
            /\ (fReq[c] = "awaiting" /\ fReq'[c] = "idle") =>
                  (wire'[c].kind = "idle" /\ CallsHeld(c) = {})]_vars

\* A forward to a backend that was just launched again has failed and was
\* answered 500: no call is on the wire and the backend holds none.
C23_Witness ==
    /\ fLast.code = 500
    /\ fLast.logged
    /\ bState = "Starting"
    /\ bQueue = <<>>
    /\ \A c \in Inbound : fReq[c] = "idle" /\ wire[c].kind = "idle"

\* The number a page shows, read back from the digits after its heading
\* (-1: the page shows none).
RECURSIVE ValueOf(_)
ValueOf(ds) ==
    IF ds = <<>> THEN 0
    ELSE 10 * ValueOf(SubSeq(ds, 1, Len(ds) - 1)) + ds[Len(ds)]

Shown(body) ==
    IF Len(body) <= 1 THEN -1 ELSE ValueOf(Tail(body))

\* The fetch of connection c settles in this step.
Settling(c) == fReq[c] = "awaiting" /\ fReq'[c] = "idle"

\* C24: when the fetch of an inbound request settles with a JSON response,
\* the request is answered 200 with a page that shows the luckyNumber of
\* the response on its own connection; the backend puts a /lucky response
\* on the connection of the request it was handling and on no other.
C24_PageShowsOwnNumber ==
    /\ [][\A c \in Inbound :
            (Settling(c) /\ wire[c].kind = "resp" /\ wire[c].json) =>
                /\ fLast'.code = 200
                /\ ~fLast'.logged
                /\ Head(fLast'.body) = "Your Lucky Number"
                /\ Shown(fLast'.body) = wire[c].lucky]_vars
    /\ [][\A c \in Inbound :
            (wire'[c] # wire[c] /\ wire'[c].kind = "resp") =>
                /\ bQueue # <<>>
                /\ Head(bQueue).client = c
                /\ \A d \in Inbound \ {c} : wire'[d] = wire[d]]_vars

\* Two forwards were outstanding: one has just been answered 200 with the
\* page of the number the backend drew for it, while the call of the other
\* is still with the backend.
C24_Witness ==
    \E c \in Inbound :
        /\ fReq[c] = "awaiting"
        /\ wire[c].kind = "queued"
        /\ fLast.code = 200
        /\ bLast.route = "lucky"
        /\ Shown(fLast.body) = bLast.resp.lucky
        /\ Shown(fLast.body) >= LuckyBase

\* LUCKY_API_URL with its trailing path segment replaced by "ping".
LastSegmentToPing(u) == SubSeq(u, 1, Len(u) - 1) \o <<"ping">>

\* C25: whatever LUCKY_API_URL is, the probe URL is that URL with its
\* trailing path segment replaced by /ping, and every probe the backend
\* receives is a request of its /ping route.
C25_ProbeTargetsPing ==
    /\ PingUrl = LastSegmentToPing(luckyApiUrl)
    /\ \A i \in 1 .. Len(bQueue) :
          bQueue[i].client = Probe => bQueue[i].route = "ping"

\* A /ping request leaves the queue of a backend that stays up.
PingTaken ==
    /\ bQueue # <<>>
    /\ Head(bQueue).route = "ping"
    /\ bQueue' = Tail(bQueue)
    /\ bState' = bState

\* C26: the step that takes a /ping request off the queue is the step that
\* answers it, with { status: 'ok' }, on an idle thread that stays idle, and
\* the answer has waited on no busy loop; no /ping answer appears in any
\* other step; the thread is held by a busy wait only while the request at
\* the head of the queue is a /lucky request.
C26_PingNeverWaits ==
    /\ [](bBusy => (bQueue # <<>> /\ Head(bQueue).route = "lucky"))
    /\ [][PingTaken =>
            /\ ~bBusy /\ ~bBusy'
            /\ bBusyFor' = bBusyFor
            /\ bLast'.route = "ping"
            /\ bLast'.resp = PingOk
            /\ bLast'.waited = 0]_vars
    /\ [][(bLast' # bLast /\ bLast'.route = "ping") => PingTaken]_vars

\* A /ping request has just been answered without a wait while a /lucky
\* request is next in the queue.
C26_Witness ==
    /\ bLast.route = "ping"
    /\ bLast.resp = PingOk
    /\ bLast.waited = 0
    /\ ~bBusy
    /\ bQueue # <<>>
    /\ Head(bQueue).route = "lucky"

\* C27: every launch of the backend, the first and each one after a kill,
\* enters Starting with no elapsed delay, no request and no answer of its
\* own; the elapsed delay grows only second by second while that process is
\* Starting; the process becomes Ready only from Starting with the full
\* delay elapsed, and only a Ready process with its own full delay answers
\* /ping with ok.
C27_RestartStartsAfresh ==
    /\ [][(bState # "Starting" /\ bState' = "Starting") =>
            /\ bUptime' = 0
            /\ bQueue' = <<>>
            /\ ~bBusy'
            /\ bLast' = NoLast]_vars
    /\ [][bUptime' # bUptime =>
            \/ bState # "Starting" /\ bState' = "Starting" /\ bUptime' = 0
            \/ bState = "Starting" /\ bState' = "Starting"
                  /\ bUptime' = bUptime + 1]_vars
    /\ [][(bState # "Ready" /\ bState' = "Ready") =>
            (bState = "Starting" /\ bUptime = StartupDelay)]_vars
    /\ [](bState = "Starting" =>
            (bQueue = <<>> /\ bLast = NoLast /\ bUptime <= StartupDelay))
    /\ [][(bLast' # bLast /\ bLast'.resp = PingOk) =>
            (bState = "Ready" /\ bUptime = StartupDelay
             /\ bLast'.uptime = StartupDelay)]_vars

\* The backend that let the frontend through its gate is gone; the process
\* launched after it is midway through its own startup delay.
C27_Witness ==
    /\ fState = "Listening"
    /\ probeOutcome = PingOk
    /\ bState = "Starting"
    /\ bUptime > 0
    /\ bUptime < StartupDelay

\* The connections whose backend call is outstanding.
Outstanding == { c \in Inbound : fReq[c] = "awaiting" /\ wire[c].kind = "queued" }

\* C28: a listening frontend with a free connection and no callback left to
\* run takes a further inbound request however many backend calls it is
\* awaiting; taking it puts its call on the wire and leaves every other
\* connection as it was, and so does answering one.
C28_ForwardsInterleave ==
    /\ []((/\ fState = "Listening"
           /\ ~FrontendRunnable /\ ~BackendRunnable
           /\ \E c \in InboundOf(MaxParallel) : fReq[c] = "idle")
          => ENABLED (\E c \in InboundOf(MaxParallel) : InboundArrives(c)))
    /\ [][\A c \in Inbound :
            (fReq'[c] # fReq[c]) =>
                /\ \A d \in Inbound \ {c} :
                      fReq'[d] = fReq[d] /\ wire'[d] = wire[d]
                /\ fReq'[c] = "awaiting" => wire'[c].kind = "queued"
                /\ fState' = fState]_vars

\* Every connection of the frontend is awaiting a backend response at once.
C28_Witness ==
    /\ Cardinality(Outstanding) = MaxParallel
    /\ MaxParallel >= 2
    /\ bBusy

\* The fetch of the probe has settled or its timeout is due.
ProbeSettled ==
    \/ wire[Probe].kind \in {"resp", "refused", "reset"}
    \/ probeElapsed >= ProbeTimeout

\* The only response checkLuckyNumberApp accepts.
ProbeAccepted(o) ==
    o.kind = "resp" /\ o.code \in 200 .. 299 /\ o.json /\ o.status = "ok"

\* C30: however the probe ends (no connection, timeout, a failure status, a
\* body that is not JSON, a body without status "ok"), the continuation can
\* run as soon as the fetch has settled, and it does run: a probing frontend
\* ends up listening or exited. It is listening exactly if the probe was
\* accepted and has exited with code 1, after logging the caught error,
\* otherwise; it is undecided only while it is probing.
C30_ProbeNeverRejects ==
    /\ (fState = "Probing") ~> (fState \in {"Listening", "Exited"})
    /\ []((fState = "Probing" /\ ProbeSettled) => ENABLED GateSettles)
    /\ [](gate = "Undecided" <=> fState \in {"NotStarted", "Probing"})
    /\ [][(fState = "Probing" /\ fState' # "Probing") =>
            /\ fState' \in {"Listening", "Exited"}
            /\ ProbeAccepted(probeOutcome') <=> fState' = "Listening"
            /\ fState' = "Exited" =>
                  /\ fExit' = 1
                  /\ Len(fLog') = Len(fLog) + 2
                  /\ fLog'[Len(fLog) + 1].line = 20
                  /\ fLog'[Len(fLog) + 2].line = 54]_vars

\* The probe got a 200 response whose body is not JSON: the error of
\* res.json() was caught and the frontend exited with code 1.
C30_Witness ==
    /\ fState = "Exited"
    /\ fExit = 1
    /\ probeOutcome.kind = "resp"
    /\ probeOutcome.code = 200
    /\ ~probeOutcome.json

\* The reply on connection c has a body that parses as JSON.
JsonReply(c) == wire[c].kind = "resp" /\ wire[c].json

SettlingNow == { c \in Inbound : Settling(c) }

\* C32: the step in which the fetch of an inbound request settles, with a
\* response or with a failure, sends one answer, the 200 page or the 500
\* text, and ends the request; no answer is sent in any other step, and no
\* step answers two requests.
C32_OneAnswerPerRequest ==
    /\ [][\A c \in Inbound :
            Settling(c) =>
                /\ fLast'.sent = 1
                /\ \/ fLast'.code = 200 /\ Head(fLast'.body) = "Your Lucky Number"
                   \/ fLast'.code = 500
                        /\ fLast'.body = <<"Failed to fetch lucky number">>
                /\ wire'[c].kind = "idle"]_vars
    /\ [][(fLast' # fLast /\ fLast' # NoAnswer) =>
              Cardinality(SettlingNow) = 1]_vars
    /\ [][Cardinality(SettlingNow) <= 1]_vars
    /\ [][\A c \in Inbound :
            (fReq[c] = "awaiting" /\ wire[c].kind \in {"resp", "refused", "reset"}
             /\ fReq'[c] = "awaiting") => wire'[c] = wire[c]]_vars
    /\ [](fLast # NoAnswer => (fLast.sent = 1 /\ fLast.code \in {200, 500}))

\* A call that was refused has been answered once, with the 500 text, and
\* its connection is free again.
C32_Witness ==
    /\ fLast.sent = 1
    /\ fLast.code = 500
    /\ fLast.body = <<"Failed to fetch lucky number">>
    /\ HostOf(luckyApiUrl) = "x"
    /\ \A c \in Inbound : fReq[c] = "idle" /\ wire[c].kind = "idle"

\* The backend puts its { status: 'ok' } on the connection of the probe.
ProbeAnsweredOk == wire[Probe] # PingOk /\ wire'[Probe] = PingOk

\* C33: while the frontend listens, the probe it decided on was taken by a
\* backend that was Ready and was answered ok; that answer was produced by
\* a Ready backend with its full startup delay behind it, before any
\* listener was bound, and the listener is bound only in a step that finds
\* that answer on the probe's connection. Nothing ties the listener to the
\* backend's state afterwards.
C33_ListeningImpliesWasReady ==
    /\ [](fState = "Listening" =>
            /\ probeSent.state = "Ready"
            /\ probeOutcome = PingOk
            /\ wire[Probe] = PingOk)
    /\ [][ProbeAnsweredOk =>
            /\ bState = "Ready"
            /\ bUptime = StartupDelay
            /\ fState # "Listening" /\ fState' # "Listening"]_vars
    /\ [][(fState # "Listening" /\ fState' = "Listening") =>
            (fState = "Probing" /\ wire[Probe] = PingOk)]_vars

\* The frontend listens although the backend that answered its probe has
\* been killed since.
C33_Witness ==
    /\ fState = "Listening"
    /\ probeSent.state = "Ready"
    /\ wire[Probe] = PingOk
    /\ bState = "Killed"

====
